---- MODULE Spec2Model ----
(***************************************************************************)
(* Approval workflow engine of the expense tracker backend.                *)
(*                                                                         *)
(*   utils/approvalWorkflow.js : createApprovalSequence, processApproval,  *)
(*                               evaluateApprovalRules                     *)
(*   routes/expenses.js        : POST /api/expenses, DELETE                *)
(*                               /api/expenses/:id, POST                   *)
(*                               /api/approvals/:id/approve and /reject    *)
(*                                                                         *)
(* The database tables are sequences whose index is the autoincrement id.  *)
(* Every await of a handler is one atomic step; a handler instance keeps   *)
(* its position (pc) and its local variables between steps.                *)
(***************************************************************************)
EXTENDS Integers, Sequences, FiniteSets, TLC

VARIABLES
    users,      \* table users: id -> [role, reportsTo, isActive]
    sequence,   \* the company's active approval_sequences row, if any
    rules,      \* table approval_rules of the company
    expenses,   \* table expenses: id -> [userId, status]
    approvals,  \* table expense_approvals: id -> row
    builds,     \* POST /api/expenses handler of expense id: [pc, response]
    reqs,       \* approve / reject / cancel handler instances
    evalResult  \* result of a direct call of evaluateApprovalRules

vars == <<users, sequence, rules, expenses, approvals, builds, reqs, evalResult>>

(***************************************************************************)
(* Bounds                                                                  *)
(***************************************************************************)
MaxRequests == 3   \* requests served in one behaviour, of all routes
MaxExpenses == 2   \* expenses submitted in one behaviour
MaxSeqLen == 2     \* steps of a sequence definition (builder)
MaxSteps == 3      \* approval steps handed to the evaluator (evaluator)
MaxEvalRules == 2  \* rules handed to the evaluator (evaluator)
MaxInFlight == 2   \* handlers in flight at a time (fair workflow)

NULL == "NULL"     \* null of a TEXT column; a null INTEGER id is 0
UNSET == "UNSET"   \* a local variable not yet assigned

UserIds == 1 .. 3
ReqIds == 1 .. MaxRequests

StepStatuses == {"PENDING", "APPROVED", "REJECTED"}
ExpenseStatuses == {"PENDING", "APPROVED", "REJECTED", "CANCELLED"}
Comments == {"ok"}

Min(S) == CHOOSE x \in S : \A y \in S : x <= y

SeqsUpTo(S, n) == UNION {[1 .. k -> S] : k \in 0 .. n}

(***************************************************************************)
(* Directory: the users of the seeded company, a variant of it in which    *)
(* the admin account is deactivated and one with a second manager.         *)
(***************************************************************************)
User(role, reportsTo, isActive) ==
    [role |-> role, reportsTo |-> reportsTo, isActive |-> isActive]

SeedUsers ==
    (1 :> User("ADMIN", 0, TRUE)) @@
    (2 :> User("MANAGER", 0, TRUE)) @@
    (3 :> User("EMPLOYEE", 2, TRUE))

Directories ==
    {SeedUsers,
     [SeedUsers EXCEPT ![1].isActive = FALSE],
     [SeedUsers EXCEPT ![3].role = "MANAGER"]}

\* String.prototype.toUpperCase on the role names a sequence step can carry
ToUpperCase(s) ==
    CASE s = "admin" -> "ADMIN"
      [] s = "manager" -> "MANAGER"
      [] s = "employee" -> "EMPLOYEE"
      [] OTHER -> s

(***************************************************************************)
(* Sequence definitions                                                    *)
(***************************************************************************)
UserStep(id) == [type |-> "user", userId |-> id, role |-> NULL]
RoleStep(role) == [type |-> "role", userId |-> 0, role |-> role]
ManagerStep == [type |-> "manager", userId |-> 0, role |-> NULL]

StepUniverse ==
    {UserStep(2)} \cup
    {RoleStep(r) : r \in {"ADMIN", "MANAGER", "manager"}} \cup
    {ManagerStep}

NoSequence == [exists |-> FALSE, steps |-> <<>>]
ActiveSequence(steps) == [exists |-> TRUE, steps |-> steps]

\* scripts/seed.js: manager of the submitter, then the MANAGER role
SeedSequence == ActiveSequence(<<ManagerStep, RoleStep("MANAGER")>>)

Policies ==
    {NoSequence,
     SeedSequence,
     ActiveSequence(<<ManagerStep, RoleStep("ADMIN")>>)}

(***************************************************************************)
(* Rules.  A threshold is the fraction num / den, or null.                 *)
(***************************************************************************)
NullThreshold == [isNull |-> TRUE, num |-> 0, den |-> 1]
Threshold(n, d) == [isNull |-> FALSE, num |-> n, den |-> d]
NoConfig == [present |-> FALSE, percentageThreshold |-> NullThreshold,
             specificRole |-> NULL]
Config(t, role) == [present |-> TRUE, percentageThreshold |-> t,
                    specificRole |-> role]

Rule(ruleType, threshold, specificApproverId, specificRole, config) ==
    [ruleType |-> ruleType, threshold |-> threshold,
     specificApproverId |-> specificApproverId,
     specificRole |-> specificRole, config |-> config,
     isActive |-> TRUE]

PercentageRule(t) == Rule("PERCENTAGE", t, 0, NULL, NoConfig)
SpecificUserRule(u) == Rule("SPECIFIC", NullThreshold, u, NULL, NoConfig)
SpecificRoleRule(r) == Rule("SPECIFIC", NullThreshold, 0, r, NoConfig)
HybridRule(c) == Rule("HYBRID", NullThreshold, 0, NULL, c)

\* rule tables of the workflow specification
RuleSets ==
    {<<>>,
     <<PercentageRule(Threshold(1, 2))>>,
     <<SpecificRoleRule("ADMIN")>>}

\* rule sets of the evaluator specification
RuleUniverse ==
    {PercentageRule(Threshold(1, 2)),
     PercentageRule(Threshold(1, 1)),
     PercentageRule(NullThreshold),
     SpecificUserRule(1),
     SpecificRoleRule("MANAGER"),
     HybridRule(NoConfig),
     HybridRule(Config(Threshold(1, 1), "ADMIN"))}

(***************************************************************************)
(* createApprovalSequence: resolution of one sequence step                 *)
(***************************************************************************)
Approval(expenseId, approverId, approverRole, order) ==
    [expenseId |-> expenseId, approverId |-> approverId,
     approverRole |-> approverRole, order |-> order,
     status |-> "PENDING", comment |-> NULL]

\* FindFirstUserByRole without the condition isActive: true
FindFirstUserByRoleInactiveToo(usrs, role) ==
    LET found == {u \in DOMAIN usrs : usrs[u].role = role}
    IN  IF found = {} THEN 0 ELSE Min(found)

\* prisma.user.findFirst({where: {companyId, role, isActive: true}})
FindFirstUserByRole(usrs, role) ==
    LET found == {u \in DOMAIN usrs : usrs[u].role = role /\ usrs[u].isActive}
    IN  IF found = {} THEN 0 ELSE Min(found)

\* prisma.user.findUnique({where: {id}, include: {manager: true}}).manager
ManagerOf(usrs, userId) ==
    IF userId \in DOMAIN usrs THEN usrs[userId].reportsTo ELSE 0

ResolveStep(usrs, step, userId) ==
    CASE step.type = "user" ->
            [approverId |-> step.userId, approverRole |-> NULL]
      [] step.type = "role" ->
            LET approver == FindFirstUserByRole(usrs, ToUpperCase(step.role))
            IN  IF approver # 0
                THEN [approverId |-> approver,
                      approverRole |-> ToUpperCase(step.role)]
                ELSE [approverId |-> 0, approverRole |-> NULL]
      [] step.type = "manager" ->
            LET manager == ManagerOf(usrs, userId)
            IN  IF manager # 0
                THEN [approverId |-> manager, approverRole |-> "MANAGER"]
                ELSE [approverId |-> 0, approverRole |-> NULL]
      [] OTHER -> [approverId |-> 0, approverRole |-> NULL]

\* order value given to the step built from definition entry i (1-based here)
StepOrder(i) == i - 1

(***************************************************************************)
(* evaluateApprovalRules                                                   *)
(***************************************************************************)
RECURSIVE InsertByOrder(_, _)
InsertByOrder(a, sorted) ==
    IF sorted = <<>> THEN <<a>>
    ELSE IF a.order < Head(sorted).order THEN <<a>> \o sorted
    ELSE <<Head(sorted)>> \o InsertByOrder(a, Tail(sorted))

RECURSIVE SortByOrder(_)
SortByOrder(s) ==
    IF s = <<>> THEN <<>>
    ELSE InsertByOrder(s[Len(s)], SortByOrder(SubSeq(s, 1, Len(s) - 1)))

\* prisma.expenseApproval.findMany({where: {expenseId}, orderBy: {order}})
ApprovalsOf(tbl, expenseId) ==
    SortByOrder(SelectSeq(tbl, LAMBDA a : a.expenseId = expenseId))

\* prisma.approvalRule.findMany({where: {companyId, isActive: true}})
ActiveRules(rs) == SelectSeq(rs, LAMBDA r : r.isActive)

\* Array.prototype.find: index of the first element with the property, or 0
FindStatus(list, status) ==
    LET hits == {k \in 1 .. Len(list) : list[k].status = status}
    IN  IF hits = {} THEN 0 ELSE Min(hits)

FindApprover(list, approverId) ==
    LET hits == {k \in 1 .. Len(list) : list[k].approverId = approverId}
    IN  IF hits = {} THEN 0 ELSE Min(hits)

FindRole(list, role) ==
    LET hits == {k \in 1 .. Len(list) : list[k].approverRole = role}
    IN  IF hits = {} THEN 0 ELSE Min(hits)

CountStatus(list, status) ==
    Cardinality({k \in 1 .. Len(list) : list[k].status = status})

\* RequiredApprovals with the product rounded down
RequiredApprovalsFloor(total, t) ==
    IF t.isNull THEN 0 ELSE (total * t.num) \div t.den

\* Math.ceil(total * threshold); total * null is 0.  The thresholds drawn
\* are dyadic fractions, for which the floating point product is exact.
RequiredApprovals(total, t) ==
    IF t.isNull THEN 0 ELSE (total * t.num + t.den - 1) \div t.den

Result(finalDecision, reason, pending, total) ==
    [finalDecision |-> finalDecision, reason |-> reason,
     pendingApprovals |-> pending, totalApprovals |-> total]

NoResult == Result(UNSET, UNSET, -1, -1)

\* RuleSatisfied whose PERCENTAGE test asks for exactly the required count
RuleSatisfiedExactCount(rule, list) ==
    LET approved == CountStatus(list, "APPROVED")
        total == Len(list)
    IN  CASE rule.ruleType = "PERCENTAGE" ->
                approved = RequiredApprovals(total, rule.threshold)
          [] rule.ruleType = "SPECIFIC" ->
                IF rule.specificApproverId # 0
                THEN LET k == FindApprover(list, rule.specificApproverId)
                     IN  k # 0 /\ list[k].status = "APPROVED"
                ELSE IF rule.specificRole # NULL
                THEN LET k == FindRole(list, rule.specificRole)
                     IN  k # 0 /\ list[k].status = "APPROVED"
                ELSE FALSE
          [] rule.ruleType = "HYBRID" ->
                LET percentageThreshold ==
                        IF rule.config.present
                           /\ ~rule.config.percentageThreshold.isNull
                           /\ rule.config.percentageThreshold.num # 0
                        THEN rule.config.percentageThreshold
                        ELSE Threshold(1, 2)
                    specificRole ==
                        IF rule.config.present THEN rule.config.specificRole
                        ELSE NULL
                    percentageSatisfied ==
                        approved >= RequiredApprovals(total, percentageThreshold)
                    specificSatisfied ==
                        IF specificRole # NULL
                        THEN LET k == FindRole(list, specificRole)
                             IN  k # 0 /\ list[k].status = "APPROVED"
                        ELSE FALSE
                IN  percentageSatisfied \/ specificSatisfied
          [] OTHER -> FALSE

\* one iteration of `for (const rule of rules)`: TRUE when the rule returns
RuleSatisfied(rule, list) ==
    LET approved == CountStatus(list, "APPROVED")
        total == Len(list)
    IN  CASE rule.ruleType = "PERCENTAGE" ->
                approved >= RequiredApprovals(total, rule.threshold)
          [] rule.ruleType = "SPECIFIC" ->
                IF rule.specificApproverId # 0
                THEN LET k == FindApprover(list, rule.specificApproverId)
                     IN  k # 0 /\ list[k].status = "APPROVED"
                ELSE IF rule.specificRole # NULL
                THEN LET k == FindRole(list, rule.specificRole)
                     IN  k # 0 /\ list[k].status = "APPROVED"
                ELSE FALSE
          [] rule.ruleType = "HYBRID" ->
                LET percentageThreshold ==
                        IF rule.config.present
                           /\ ~rule.config.percentageThreshold.isNull
                           /\ rule.config.percentageThreshold.num # 0
                        THEN rule.config.percentageThreshold
                        ELSE Threshold(1, 2)
                    specificRole ==
                        IF rule.config.present THEN rule.config.specificRole
                        ELSE NULL
                    percentageSatisfied ==
                        approved >= RequiredApprovals(total, percentageThreshold)
                    specificSatisfied ==
                        IF specificRole # NULL
                        THEN LET k == FindRole(list, specificRole)
                             IN  k # 0 /\ list[k].status = "APPROVED"
                        ELSE FALSE
                IN  percentageSatisfied \/ specificSatisfied
          [] OTHER -> FALSE

RuleReason(rule) ==
    CASE rule.ruleType = "PERCENTAGE" -> "Percentage rule satisfied"
      [] rule.ruleType = "SPECIFIC" ->
            IF rule.specificApproverId # 0 THEN "Specific approver approved"
            ELSE "Specific role approved"
      [] OTHER -> "Hybrid rule satisfied"

\* FirstSatisfiedRule leaving the loop after its first iteration
FirstRuleOnly(rs, list) ==
    IF Len(rs) > 0 /\ RuleSatisfied(rs[1], list) THEN 1 ELSE 0

\* index of the first rule of rs that returns, or 0
FirstSatisfiedRule(rs, list) ==
    LET hits == {k \in 1 .. Len(rs) : RuleSatisfied(rs[k], list)}
    IN  IF hits = {} THEN 0 ELSE Min(hits)

\* EvaluateList with the rules consulted before the rejections
EvaluateListRulesFirst(list, rs) ==
    LET pending == CountStatus(list, "PENDING")
        approved == CountStatus(list, "APPROVED")
        matched == FirstSatisfiedRule(rs, list)
    IN  IF matched # 0
        THEN Result("APPROVED", RuleReason(rs[matched]), -1, -1)
        ELSE IF FindStatus(list, "REJECTED") # 0
        THEN Result("REJECTED", "Rejected by approver", -1, -1)
        ELSE IF pending = 0 /\ approved > 0
        THEN Result("APPROVED", "All approvals completed", -1, -1)
        ELSE Result(NULL, "Awaiting more approvals", pending, Len(list))

\* EvaluateList without the default path after the rule loop
EvaluateListNoDefault(list, rs) ==
    LET pending == CountStatus(list, "PENDING")
        matched == FirstSatisfiedRule(rs, list)
    IN  IF FindStatus(list, "REJECTED") # 0
        THEN Result("REJECTED", "Rejected by approver", -1, -1)
        ELSE IF matched # 0
        THEN Result("APPROVED", RuleReason(rs[matched]), -1, -1)
        ELSE Result(NULL, "Awaiting more approvals", pending, Len(list))

\* EvaluateList whose default path does not ask for an APPROVED step
EvaluateListAnyCompleted(list, rs) ==
    LET pending == CountStatus(list, "PENDING")
        matched == FirstSatisfiedRule(rs, list)
    IN  IF FindStatus(list, "REJECTED") # 0
        THEN Result("REJECTED", "Rejected by approver", -1, -1)
        ELSE IF matched # 0
        THEN Result("APPROVED", RuleReason(rs[matched]), -1, -1)
        ELSE IF pending = 0
        THEN Result("APPROVED", "All approvals completed", -1, -1)
        ELSE Result(NULL, "Awaiting more approvals", pending, Len(list))

EvaluateList(list, rs) ==
    LET pending == CountStatus(list, "PENDING")
        approved == CountStatus(list, "APPROVED")
        matched == FirstSatisfiedRule(rs, list)
    IN  IF FindStatus(list, "REJECTED") # 0
        THEN Result("REJECTED", "Rejected by approver", -1, -1)
        ELSE IF matched # 0
        THEN Result("APPROVED", RuleReason(rs[matched]), -1, -1)
        ELSE IF pending = 0 /\ approved > 0
        THEN Result("APPROVED", "All approvals completed", -1, -1)
        ELSE Result(NULL, "Awaiting more approvals", pending, Len(list))

evaluateApprovalRules(tbl, rs, expenseId) ==
    EvaluateList(ApprovalsOf(tbl, expenseId), ActiveRules(rs))

(***************************************************************************)
(* Handler instances                                                       *)
(***************************************************************************)
IdleReq ==
    [kind |-> "none", pc |-> "idle", approvalId |-> 0, approverId |-> 0,
     comment |-> NULL, expenseId |-> 0, expenseStatus |-> UNSET,
     count |-> -1, finalDecision |-> UNSET, error |-> NULL, response |-> 0]

\* a handler that answered 404 at its lookup: it returns at once and none of
\* its locals is used again
NotFound(kind) == [IdleReq EXCEPT !.kind = kind, !.pc = "done", !.response = 404]

\* the decision the route hands to processApproval
DecisionOf(kind) == IF kind = "approve" THEN "APPROVED" ELSE "REJECTED"

Received == Len(expenses) + Cardinality({r \in ReqIds : reqs[r].pc # "idle"})

\* handler instances are taken in the order of their ids
MayStart(r) ==
    /\ Received < MaxRequests
    /\ reqs[r].pc = "idle"
    /\ \A q \in ReqIds : q < r => reqs[q].pc # "idle"

\* SetStatus without the where clause on the id
SetStatusEveryRow(tbl, id, status) ==
    [k \in DOMAIN tbl |-> [tbl[k] EXCEPT !.status = status]]

\* prisma.expense.update({where: {id}, data: {status}})
SetStatus(tbl, id, status) == [tbl EXCEPT ![id].status = status]

(***************************************************************************)
(* POST /api/expenses                                                      *)
(***************************************************************************)
\* createApprovalSequence, the loop over the sequence steps: the rows created
\* by the iterations 1 .. n, in creation order
RECURSIVE CreatedSteps(_, _, _, _, _)
CreatedSteps(usrs, steps, userId, expenseId, n) ==
    IF n = 0 THEN <<>>
    ELSE LET resolved == ResolveStep(usrs, steps[n], userId)
             before == CreatedSteps(usrs, steps, userId, expenseId, n - 1)
         IN  IF resolved.approverId # 0
             THEN Append(before, Approval(expenseId, resolved.approverId,
                                          resolved.approverRole, StepOrder(n)))
             ELSE before

\* FallbackSteps assigning the step to a user of role MANAGER instead of the
\* submitter's own manager
FallbackStepsAnyManager(usrs, userId, expenseId) ==
    LET manager == FindFirstUserByRole(usrs, "MANAGER")
    IN  IF manager # 0
        THEN <<Approval(expenseId, manager, "MANAGER", 0)>>
        ELSE <<>>

\* createApprovalSequence, the fallback without an active sequence
FallbackSteps(usrs, userId, expenseId) ==
    LET manager == ManagerOf(usrs, userId)
    IN  IF manager # 0
        THEN <<Approval(expenseId, manager, "MANAGER", 0)>>
        ELSE <<>>

\* the lookups createApprovalSequence makes, numbered: 0 is the lookup of the
\* active sequence (and, without one, of the submitter's manager), k > 0 the
\* Directory lookup of sequence step k
Lookups(seq) ==
    {0} \cup {k \in 1 .. Len(seq.steps) :
                seq.exists /\ seq.steps[k].type \in {"role", "manager"}}

\* The whole handler: prisma.expense.create with status PENDING, then
\* createApprovalSequence.  failedLookup is -1 when every lookup answers;
\* otherwise that lookup throws, the rows created before it stay (nothing is
\* rolled back) and the route answers 500.
SubmitExpense(userId, failedLookup) ==
    /\ Received < MaxRequests
    /\ Len(expenses) < MaxExpenses
    /\ failedLookup \in {-1} \cup Lookups(sequence)
    /\ LET expenseId == Len(expenses) + 1
           created ==
               IF failedLookup = 0 THEN <<>>
               ELSE IF ~sequence.exists
               THEN FallbackSteps(users, userId, expenseId)
               ELSE CreatedSteps(users, sequence.steps, userId, expenseId,
                                 IF failedLookup = -1 THEN Len(sequence.steps)
                                 ELSE failedLookup - 1)
       IN  /\ expenses' = Append(expenses, [userId |-> userId, status |-> "PENDING"])
           /\ approvals' = approvals \o created
           /\ builds' = Append(builds,
                               IF failedLookup = -1
                               THEN [pc |-> "done", response |-> 201]
                               ELSE [pc |-> "failed", response |-> 500])
    /\ UNCHANGED <<users, sequence, rules, reqs, evalResult>>

(***************************************************************************)
(* POST /api/approvals/:id/approve and POST /api/approvals/:id/reject      *)
(***************************************************************************)
\* FindPendingApproval without the condition on the approver
FindPendingApprovalOfAnyone(tbl, approvalId, approverId) ==
    /\ approvalId \in DOMAIN tbl
    /\ tbl[approvalId].status = "PENDING"

\* prisma.expenseApproval.findFirst({where: {id, approverId, status: PENDING}})
FindPendingApproval(tbl, approvalId, approverId) ==
    /\ approvalId \in DOMAIN tbl
    /\ tbl[approvalId].approverId = approverId
    /\ tbl[approvalId].status = "PENDING"

\* the route, for a request that passes its validators, up to its call of
\* processApproval
ApprovalRoute(r, kind, approvalId, approverId, comment) ==
    /\ LET started == [IdleReq EXCEPT !.kind = kind, !.approvalId = approvalId,
                                      !.approverId = approverId,
                                      !.comment = comment]
       IN  IF FindPendingApproval(approvals, approvalId, approverId)
           THEN LET expenseId == approvals[approvalId].expenseId
                IN  reqs' = [reqs EXCEPT ![r] =
                        [started EXCEPT !.pc = "updateMany",
                                        !.expenseId = expenseId,
                                        !.expenseStatus = expenses[expenseId].status]]
           ELSE reqs' = [reqs EXCEPT ![r] = NotFound(kind)]
    /\ UNCHANGED <<users, sequence, rules, expenses, approvals, builds, evalResult>>

\* a request of either route, for any approval id (the id after the last row
\* stands for the ids that do not exist), by any user, with a comment
ApprovalRequest(r) ==
    /\ MayStart(r)
    /\ \E kind \in {"approve", "reject"}, approvalId \in 1 .. Len(approvals) + 1,
          approverId \in UserIds, comment \in Comments :
            ApprovalRoute(r, kind, approvalId, approverId, comment)

\* the error processApproval throws when its update matched no row; the
\* route's catch answers it with 500
NoPendingApproval == "No pending approval found for this user"

\* PendingOf without the condition on the status
PendingOfAnyStatus(tbl, expenseId, approverId) ==
    {a \in DOMAIN tbl : /\ tbl[a].expenseId = expenseId
                        /\ tbl[a].approverId = approverId}

\* PendingOf without the condition on the approver
PendingOfAnyApprover(tbl, expenseId, approverId) ==
    {a \in DOMAIN tbl : /\ tbl[a].expenseId = expenseId
                        /\ tbl[a].status = "PENDING"}

\* PendingOf without the condition on the expense
PendingOfAnyExpense(tbl, expenseId, approverId) ==
    {a \in DOMAIN tbl : /\ tbl[a].approverId = approverId
                        /\ tbl[a].status = "PENDING"}

\* rows matched by the where clause of processApproval's updateMany
PendingOf(tbl, expenseId, approverId) ==
    {a \in DOMAIN tbl : /\ tbl[a].expenseId = expenseId
                        /\ tbl[a].approverId = approverId
                        /\ tbl[a].status = "PENDING"}

\* ProcessUpdate without the test on the number of rows updated
ProcessUpdateUnchecked(r) ==
    /\ reqs[r].pc = "updateMany"
    /\ LET matched == PendingOf(approvals, reqs[r].expenseId, reqs[r].approverId)
       IN  /\ approvals' =
                 [a \in DOMAIN approvals |->
                    IF a \in matched
                    THEN [approvals[a] EXCEPT !.status = DecisionOf(reqs[r].kind),
                                              !.comment = reqs[r].comment]
                    ELSE approvals[a]]
           /\ reqs' = [reqs EXCEPT ![r].count = Cardinality(matched),
                                   ![r].pc = "evaluate"]
    /\ UNCHANGED <<users, sequence, rules, expenses, builds, evalResult>>

\* processApproval: prisma.expenseApproval.updateMany and the count check
ProcessUpdate(r) ==
    /\ reqs[r].pc = "updateMany"
    /\ LET matched == PendingOf(approvals, reqs[r].expenseId, reqs[r].approverId)
       IN  /\ approvals' =
                 [a \in DOMAIN approvals |->
                    IF a \in matched
                    THEN [approvals[a] EXCEPT !.status = DecisionOf(reqs[r].kind),
                                              !.comment = reqs[r].comment]
                    ELSE approvals[a]]
           /\ reqs' = IF Cardinality(matched) = 0
                      THEN [reqs EXCEPT ![r].count = 0, ![r].pc = "done",
                                        ![r].error = NoPendingApproval,
                                        ![r].response = 500]
                      ELSE [reqs EXCEPT ![r].count = Cardinality(matched),
                                        ![r].pc = "evaluate"]
    /\ UNCHANGED <<users, sequence, rules, expenses, builds, evalResult>>

\* ProcessEvaluate going on to the expense update for a rejection only
ProcessEvaluateRejectionsOnly(r) ==
    /\ reqs[r].pc = "evaluate"
    /\ LET result == evaluateApprovalRules(approvals, rules, reqs[r].expenseId)
       IN  reqs' = IF result.finalDecision = "REJECTED"
                   THEN [reqs EXCEPT ![r].finalDecision = result.finalDecision,
                                     ![r].pc = "expenseUpdate"]
                   ELSE [reqs EXCEPT ![r].finalDecision = NULL,
                                     ![r].pc = "done", ![r].response = 200]
    /\ UNCHANGED <<users, sequence, rules, expenses, approvals, builds, evalResult>>

\* processApproval: the call of evaluateApprovalRules
ProcessEvaluate(r) ==
    /\ reqs[r].pc = "evaluate"
    /\ LET result == evaluateApprovalRules(approvals, rules, reqs[r].expenseId)
       IN  reqs' = IF result.finalDecision # NULL
                   THEN [reqs EXCEPT ![r].finalDecision = result.finalDecision,
                                     ![r].pc = "expenseUpdate"]
                   ELSE [reqs EXCEPT ![r].finalDecision = NULL,
                                     ![r].pc = "done", ![r].response = 200]
    /\ UNCHANGED <<users, sequence, rules, expenses, approvals, builds, evalResult>>

\* ProcessExpenseUpdate writing the approver's decision instead of the verdict
ProcessExpenseUpdateDecision(r) ==
    /\ reqs[r].pc = "expenseUpdate"
    /\ expenses' = SetStatus(expenses, reqs[r].expenseId, DecisionOf(reqs[r].kind))
    /\ reqs' = [reqs EXCEPT ![r].pc = "done", ![r].response = 200]
    /\ UNCHANGED <<users, sequence, rules, approvals, builds, evalResult>>

\* processApproval: prisma.expense.update of the status, then the answer
ProcessExpenseUpdate(r) ==
    /\ reqs[r].pc = "expenseUpdate"
    /\ expenses' = SetStatus(expenses, reqs[r].expenseId, reqs[r].finalDecision)
    /\ reqs' = [reqs EXCEPT ![r].pc = "done", ![r].response = 200]
    /\ UNCHANGED <<users, sequence, rules, approvals, builds, evalResult>>

(***************************************************************************)
(* DELETE /api/expenses/:id                                                *)
(***************************************************************************)
\* prisma.expense.findFirst({where: {id, userId, status: PENDING}})
FindPendingExpense(tbl, expenseId, userId) ==
    /\ expenseId \in DOMAIN tbl
    /\ tbl[expenseId].userId = userId
    /\ tbl[expenseId].status = "PENDING"

CancelRoute(r, expenseId, userId) ==
    /\ LET started == [IdleReq EXCEPT !.kind = "cancel", !.expenseId = expenseId,
                                      !.approverId = userId]
       IN  IF FindPendingExpense(expenses, expenseId, userId)
           THEN reqs' = [reqs EXCEPT ![r] =
                        [started EXCEPT !.pc = "cancelUpdate",
                                        !.expenseStatus = expenses[expenseId].status]]
           ELSE reqs' = [reqs EXCEPT ![r] = NotFound("cancel")]
    /\ UNCHANGED <<users, sequence, rules, expenses, approvals, builds, evalResult>>

CancelRequest(r) ==
    /\ MayStart(r)
    /\ \E expenseId \in 1 .. Len(expenses) + 1, userId \in UserIds :
            CancelRoute(r, expenseId, userId)

\* prisma.expense.update({data: {status: CANCELLED}})
CancelUpdate(r) ==
    /\ reqs[r].pc = "cancelUpdate"
    /\ expenses' = SetStatus(expenses, reqs[r].expenseId, "CANCELLED")
    /\ reqs' = [reqs EXCEPT ![r].pc = "done", ![r].response = 200]
    /\ UNCHANGED <<users, sequence, rules, approvals, builds, evalResult>>

(***************************************************************************)
(* A direct call of the exported evaluateApprovalRules                     *)
(***************************************************************************)
\* EvaluateCall with the write of the verdict to the expense moved into it
EvaluateCallWriting(expenseId) ==
    /\ expenseId \in DOMAIN expenses
    /\ evalResult' = evaluateApprovalRules(approvals, rules, expenseId)
    /\ expenses' = IF evalResult'.finalDecision # NULL
                   THEN SetStatus(expenses, expenseId, evalResult'.finalDecision)
                   ELSE expenses
    /\ UNCHANGED <<users, sequence, rules, approvals, builds, reqs>>

\* the call may be repeated: the function keeps nothing between calls
EvaluateCall(expenseId) ==
    /\ expenseId \in DOMAIN expenses
    /\ evalResult' = evaluateApprovalRules(approvals, rules, expenseId)
    /\ UNCHANGED <<users, sequence, rules, expenses, approvals, builds, reqs>>

(***************************************************************************)
(* Workflow specification: one company with the seeded directory, a        *)
(* sequence definition and a rule set; expenses are submitted, approvers   *)
(* decide and submitters cancel, all handlers interleaving at their awaits *)
(***************************************************************************)
Init ==
    /\ users = SeedUsers
    /\ sequence \in Policies
    /\ rules \in RuleSets
    /\ expenses = <<>>
    /\ approvals = <<>>
    /\ builds = <<>>
    /\ reqs = [r \in ReqIds |-> IdleReq]
    /\ evalResult = NoResult

Next ==
    \/ \E u \in UserIds, f \in -1 .. MaxSeqLen : SubmitExpense(u, f)
    \/ \E r \in ReqIds : ApprovalRequest(r)
    \/ \E r \in ReqIds : ProcessUpdate(r)
    \/ \E r \in ReqIds : ProcessEvaluate(r)
    \/ \E r \in ReqIds : ProcessExpenseUpdate(r)
    \/ \E r \in ReqIds : CancelRequest(r)
    \/ \E r \in ReqIds : CancelUpdate(r)

Spec == Init /\ [][Next]_vars

(***************************************************************************)
(* Builder specification: every directory, every sequence definition of    *)
(* up to MaxSeqLen steps and every submitter; only expenses are submitted  *)
(***************************************************************************)
SequenceDefinitions ==
    {NoSequence} \cup {ActiveSequence(s) : s \in SeqsUpTo(StepUniverse, MaxSeqLen)}

InitBuild ==
    /\ users \in Directories
    /\ sequence \in SequenceDefinitions
    /\ rules = <<>>
    /\ expenses = <<>>
    /\ approvals = <<>>
    /\ builds = <<>>
    /\ reqs = [r \in ReqIds |-> IdleReq]
    /\ evalResult = NoResult

NextBuild ==
    \/ \E u \in UserIds, f \in -1 .. MaxSeqLen : SubmitExpense(u, f)

SpecBuild == InitBuild /\ [][NextBuild]_vars

(***************************************************************************)
(* Evaluator specification: one expense whose steps are in any status,     *)
(* every rule list of up to MaxEvalRules rules; the evaluator is called    *)
(***************************************************************************)
StepShapes ==
    [who : {[approverId |-> 1, approverRole |-> "ADMIN"],
            [approverId |-> 2, approverRole |-> "MANAGER"]},
     status : StepStatuses]

StepsOfShapes(shapes) ==
    [k \in 1 .. Len(shapes) |->
        [Approval(1, shapes[k].who.approverId, shapes[k].who.approverRole,
                  StepOrder(k))
         EXCEPT !.status = shapes[k].status]]

InitEval ==
    /\ users = SeedUsers
    /\ sequence = NoSequence
    /\ rules \in SeqsUpTo(RuleUniverse, MaxEvalRules)
    /\ expenses = <<[userId |-> 3, status |-> "PENDING"]>>
    /\ approvals \in {StepsOfShapes(sh) : sh \in SeqsUpTo(StepShapes, MaxSteps)}
    /\ builds = <<[pc |-> "done", response |-> 201]>>
    /\ reqs = [r \in ReqIds |-> IdleReq]
    /\ evalResult = NoResult

NextEval == \E e \in DOMAIN expenses : EvaluateCall(e)

SpecEval == InitEval /\ [][NextEval]_vars

(***************************************************************************)
(* Fair workflow specification: one expense is submitted and nobody        *)
(* cancels it; the approver a PENDING step names submits a decision for    *)
(* it, at most MaxInFlight handlers being in flight (a finished handler    *)
(* instance is released and the lowest free one is taken); every handler   *)
(* that has started runs to its answer, and no PENDING step is left        *)
(* without a request.                                                      *)
(***************************************************************************)
SubmitOnce ==
    /\ expenses = <<>>
    /\ \E u \in UserIds, f \in -1 .. MaxSeqLen : SubmitExpense(u, f)

Free(r) == reqs[r].pc \in {"idle", "done"}

DecideStep(r, a, kind) ==
    /\ r <= MaxInFlight
    /\ Free(r)
    /\ \A q \in ReqIds : q < r => ~Free(q)
    /\ a \in DOMAIN approvals
    /\ approvals[a].status = "PENDING"
    /\ \E comment \in Comments :
           ApprovalRoute(r, kind, a, approvals[a].approverId, comment)

HandlerStep ==
    \E r \in ReqIds :
        ProcessUpdate(r) \/ ProcessEvaluate(r) \/ ProcessExpenseUpdate(r)

Decide ==
    \E r \in ReqIds, a \in DOMAIN approvals, kind \in {"approve", "reject"} :
        DecideStep(r, a, kind)

NextLive ==
    \/ SubmitOnce
    \/ Decide
    \/ HandlerStep

SpecLive ==
    Init /\ [][NextLive]_vars /\ WF_vars(HandlerStep) /\ WF_vars(Decide)

(***************************************************************************)
(* Serial workflow specification: the workflow in which an approve or      *)
(* reject request is made only when every earlier one has been answered;   *)
(* cancel requests interleave as before.                                   *)
(***************************************************************************)
NoDecisionInFlight ==
    \A q \in ReqIds :
        reqs[q].kind \in {"approve", "reject"} => reqs[q].pc = "done"

SerialApprovalRequest(r) == NoDecisionInFlight /\ ApprovalRequest(r)

NextSerial ==
    \/ \E u \in UserIds, f \in -1 .. MaxSeqLen : SubmitExpense(u, f)
    \/ \E r \in ReqIds : SerialApprovalRequest(r)
    \/ \E r \in ReqIds : ProcessUpdate(r)
    \/ \E r \in ReqIds : ProcessEvaluate(r)
    \/ \E r \in ReqIds : ProcessExpenseUpdate(r)
    \/ \E r \in ReqIds : CancelRequest(r)
    \/ \E r \in ReqIds : CancelUpdate(r)

SpecSerial == Init /\ [][NextSerial]_vars

(***************************************************************************)
(* Properties                                                              *)
(***************************************************************************)
DecisionKinds == {"approve", "reject"}

\* handler r is an approve / reject request that found its approval PENDING
PassedLookup(r) ==
    /\ reqs[r].kind \in DecisionKinds
    /\ reqs[r].pc # "idle"
    /\ reqs[r].response # 404

\* this step of the behaviour is handler r's update of the expense status
WritesExpense(r) ==
    /\ reqs[r].kind \in DecisionKinds
    /\ reqs[r].pc = "expenseUpdate"
    /\ reqs'[r].pc = "done"

\* C1: under every interleaving of approve / reject requests, a step that is
\* APPROVED or REJECTED keeps that status in every later state; it leaves
\* PENDING at most once and never returns to it.
C1_StepDecidedOnce ==
    [][\A a \in DOMAIN approvals :
          approvals[a].status # "PENDING"
              => approvals'[a].status = approvals[a].status]_vars

\* C1 witness: a step is decided and a second processApproval call was made
\* for it after the decision and matched nothing.
C1_Witness ==
    \E r \in ReqIds :
        /\ PassedLookup(r)
        /\ reqs[r].count = 0
        /\ approvals[reqs[r].approvalId].status # "PENDING"

\* two requests made against the same step while it was PENDING
SameStepRace(r1, r2) ==
    /\ r1 # r2
    /\ PassedLookup(r1)
    /\ PassedLookup(r2)
    /\ reqs[r1].approvalId = reqs[r2].approvalId

Succeeded(r) ==
    /\ reqs[r].pc = "done"
    /\ reqs[r].response = 200
    /\ reqs[r].count > 0

\* refused with the contract error, having written neither a step (count 0)
\* nor the expense (no verdict was ever computed)
Refused(r) ==
    /\ reqs[r].pc = "done"
    /\ reqs[r].response # 200
    /\ reqs[r].error = NoPendingApproval
    /\ reqs[r].count = 0
    /\ reqs[r].finalDecision = UNSET

\* some request other than r1 and r2 has decided the approver's pending steps
\* on that expense
DecidedByAnother(r1, r2) ==
    \E r3 \in ReqIds \ {r1, r2} :
        /\ reqs[r3].kind \in DecisionKinds
        /\ reqs[r3].count > 0
        /\ reqs[r3].expenseId = reqs[r1].expenseId
        /\ reqs[r3].approverId = reqs[r1].approverId

C3_TerminalAfterVerdict ==
    [][\A r \in ReqIds :
          (/\ WritesExpense(r)
           /\ reqs[r].expenseStatus \in {"APPROVED", "REJECTED"}
           /\ expenses[reqs[r].expenseId].status \in {"APPROVED", "REJECTED"})
              => expenses'[reqs[r].expenseId].status
                     = expenses[reqs[r].expenseId].status]_vars

\* C4: whenever a step of the expense is REJECTED, evaluateApprovalRules
\* returns REJECTED, whatever the other steps and the rules are.
C4_RejectionDominates ==
    (/\ evalResult # NoResult
     /\ \E a \in DOMAIN approvals : approvals[a].status = "REJECTED")
        => evalResult.finalDecision = "REJECTED"

\* C4 witness: one step REJECTED, every other step APPROVED, a configured rule
\* is satisfied by the approvals, and the evaluator has answered.
C4_Witness ==
    /\ evalResult # NoResult
    /\ Len(approvals) >= 2
    /\ Cardinality({a \in DOMAIN approvals : approvals[a].status = "REJECTED"}) = 1
    /\ \A a \in DOMAIN approvals : approvals[a].status # "PENDING"
    /\ \E k \in DOMAIN rules : RuleSatisfied(rules[k], approvals)

\* this step of the behaviour is handler r's updateMany, and it matched
UpdatesSteps(r) ==
    /\ reqs[r].kind \in DecisionKinds
    /\ reqs[r].pc = "updateMany"
    /\ reqs'[r].pc = "evaluate"

\* C5: a successful approve / reject request naming step S changes S alone;
\* every other row keeps its status and comment.
C5_OnlyNamedStepChanges ==
    [][\A r \in ReqIds :
          UpdatesSteps(r) =>
              \A a \in DOMAIN approvals :
                  a # reqs[r].approvalId => approvals'[a] = approvals[a]]_vars

\* C6: the order values of the steps created for an expense are exactly
\* 0 .. n-1, n being the number of steps created.
C6_OrdersContiguous ==
    \A e \in DOMAIN builds :
        builds[e].pc = "done" =>
            LET created == {a \in DOMAIN approvals : approvals[a].expenseId = e}
            IN  {approvals[a].order : a \in created}
                    = 0 .. (Cardinality(created) - 1)

\* C7: when a lookup of createApprovalSequence failed, no step of that expense
\* is in the table.
C7_FailedBuildLeavesNoStep ==
    \A e \in DOMAIN builds :
        builds[e].pc = "failed" =>
            \A a \in DOMAIN approvals : approvals[a].expenseId # e

\* no handler is between two of its steps
Quiescent == \A r \in ReqIds : reqs[r].pc \in {"idle", "done"}

\* C8: after two approvers have acted on different steps of an expense and
\* both calls have completed (and nobody cancelled), the expense status is
\* the evaluator's verdict on the steps as they now are.
C8_StatusIsVerdictOnFinalSteps ==
    \A r1, r2 \in ReqIds :
        (/\ Quiescent
         /\ r1 # r2
         /\ Succeeded(r1) /\ reqs[r1].kind \in DecisionKinds
         /\ Succeeded(r2) /\ reqs[r2].kind \in DecisionKinds
         /\ reqs[r1].expenseId = reqs[r2].expenseId
         /\ reqs[r1].approvalId # reqs[r2].approvalId
         /\ \A q \in ReqIds : reqs[q].kind # "cancel")
            => LET e == reqs[r1].expenseId
                   verdict == evaluateApprovalRules(approvals, rules, e).finalDecision
               IN  expenses[e].status =
                       IF verdict = NULL THEN "PENDING" ELSE verdict

\* C9: an approve / reject request never changes the status of an expense
\* that is no longer PENDING.
C9_ExpenseLeavesPendingOnce ==
    [][\A r \in ReqIds :
          (WritesExpense(r) /\ expenses[reqs[r].expenseId].status # "PENDING")
              => expenses'[reqs[r].expenseId].status
                     = expenses[reqs[r].expenseId].status]_vars

\* this step of the behaviour is the lookup of approve / reject request r
LooksUpApproval(r) ==
    /\ reqs[r].pc = "idle"
    /\ reqs'[r].pc # "idle"
    /\ reqs'[r].kind \in DecisionKinds

\* C10: an approve / reject request goes on to processApproval only if its
\* approval id exists, belongs to the acting user and is PENDING; any other
\* request is answered 404 at once, and no approval row and no expense
\* changes.
C10_NotFoundChangesNothing ==
    [][\A r \in ReqIds :
          LooksUpApproval(r) =>
              IF reqs'[r].response = 404
              THEN /\ reqs'[r].pc = "done"
                   /\ approvals' = approvals
                   /\ expenses' = expenses
              ELSE /\ reqs'[r].approvalId \in DOMAIN approvals
                   /\ approvals[reqs'[r].approvalId].approverId = reqs'[r].approverId
                   /\ approvals[reqs'[r].approvalId].status = "PENDING"]_vars

\* C10 witness: a request was answered 404 although steps exist, one of them
\* already decided and one still PENDING.
C10_Witness ==
    /\ \E r \in ReqIds : reqs[r].kind \in DecisionKinds /\ reqs[r].response = 404
    /\ \E a \in DOMAIN approvals : approvals[a].status # "PENDING"
    /\ \E a \in DOMAIN approvals : approvals[a].status = "PENDING"

\* C11: a step leaves PENDING only when every step of the same expense with
\* a smaller order has been decided (at the latest by the same write).
C11_StepsDecidedInOrder ==
    [][\A a \in DOMAIN approvals :
          (approvals[a].status = "PENDING" /\ approvals'[a].status # "PENDING")
              => \A b \in DOMAIN approvals :
                     (/\ approvals[b].expenseId = approvals[a].expenseId
                      /\ approvals[b].order < approvals[a].order)
                         => approvals'[b].status # "PENDING"]_vars

\* the rule table is one PERCENTAGE rule with a threshold in (0, 1]
OnePercentageRule ==
    /\ Len(rules) = 1
    /\ rules[1].ruleType = "PERCENTAGE"
    /\ ~rules[1].threshold.isNull
    /\ rules[1].threshold.num > 0
    /\ rules[1].threshold.num <= rules[1].threshold.den

NoRejectedStep == \A a \in DOMAIN approvals : approvals[a].status # "REJECTED"

\* C12: with one PERCENTAGE rule of threshold t in (0, 1] and no REJECTED
\* step, the verdict is APPROVED exactly when the number of APPROVED steps is
\* at least total * t rounded up (for an integer count: at least total * t),
\* and null otherwise.
C12_PercentageRoundsUp ==
    (evalResult # NoResult /\ OnePercentageRule /\ NoRejectedStep) =>
        LET t == rules[1].threshold
            approved == CountStatus(approvals, "APPROVED")
        IN  evalResult.finalDecision =
                IF approved * t.den >= Len(approvals) * t.num
                THEN "APPROVED" ELSE NULL

\* C12 witness: threshold 0.5 over 3 steps, 1 approved and 2 pending, and the
\* evaluator answered null.
C12_Witness ==
    /\ OnePercentageRule
    /\ rules[1].threshold = Threshold(1, 2)
    /\ Len(approvals) = 3
    /\ CountStatus(approvals, "APPROVED") = 1
    /\ CountStatus(approvals, "PENDING") = 2
    /\ evalResult.finalDecision = NULL

\* C13: when an active SPECIFIC rule names role R, no step is REJECTED and
\* some step labelled R is APPROVED, the verdict is APPROVED, whatever the
\* status of the other steps (another step labelled R included).
C13_SpecificRoleAnyStep ==
    (/\ evalResult # NoResult
     /\ NoRejectedStep
     /\ \E k \in DOMAIN rules, a \in DOMAIN approvals :
            /\ rules[k].ruleType = "SPECIFIC"
            /\ rules[k].specificApproverId = 0
            /\ rules[k].specificRole # NULL
            /\ approvals[a].approverRole = rules[k].specificRole
            /\ approvals[a].status = "APPROVED")
        => evalResult.finalDecision = "APPROVED"

\* the rule table is one HYBRID rule configured with a percentage and a role
OneHybridRule ==
    /\ Len(rules) = 1
    /\ rules[1].ruleType = "HYBRID"
    /\ rules[1].config.present
    /\ ~rules[1].config.percentageThreshold.isNull
    /\ rules[1].config.percentageThreshold.num > 0
    /\ rules[1].config.specificRole # NULL

\* C14: with one HYBRID rule (percentage p, role R) and no REJECTED step, the
\* verdict is APPROVED when the APPROVED steps reach total * p rounded up, or
\* when a step labelled R is APPROVED; when neither holds and a step is
\* PENDING the verdict is null.
C14_HybridEitherCondition ==
    (evalResult # NoResult /\ OneHybridRule /\ NoRejectedStep) =>
        LET p == rules[1].config.percentageThreshold
            approved == CountStatus(approvals, "APPROVED")
            byPercentage == approved * p.den >= Len(approvals) * p.num
            byRole == \E a \in DOMAIN approvals :
                          /\ approvals[a].approverRole = rules[1].config.specificRole
                          /\ approvals[a].status = "APPROVED"
        IN  /\ (byPercentage \/ byRole) => evalResult.finalDecision = "APPROVED"
            /\ (/\ ~byPercentage
                /\ ~byRole
                /\ CountStatus(approvals, "PENDING") > 0)
                   => evalResult.finalDecision = NULL

\* C15: when no step is REJECTED and no rule is satisfied, the verdict is
\* APPROVED ("All approvals completed") exactly when no step is PENDING and at
\* least one is APPROVED; otherwise it is null and the result reports the
\* number of PENDING steps.
C15_DefaultPath ==
    (/\ evalResult # NoResult
     /\ NoRejectedStep
     /\ \A k \in DOMAIN rules : ~RuleSatisfied(rules[k], approvals))
        => LET pending == CountStatus(approvals, "PENDING")
               approved == CountStatus(approvals, "APPROVED")
           IN  IF pending = 0 /\ approved > 0
               THEN /\ evalResult.finalDecision = "APPROVED"
                    /\ evalResult.reason = "All approvals completed"
               ELSE /\ evalResult.finalDecision = NULL
                    /\ evalResult.pendingApprovals = pending

\* C15 witness: rules are configured, none is satisfied, every step is
\* APPROVED and the evaluator approved by the default path.
C15_Witness ==
    /\ Len(rules) > 0
    /\ \A k \in DOMAIN rules : ~RuleSatisfied(rules[k], approvals)
    /\ Len(approvals) > 0
    /\ \A a \in DOMAIN approvals : approvals[a].status = "APPROVED"
    /\ evalResult.finalDecision = "APPROVED"
    /\ evalResult.reason = "All approvals completed"

StepsOfExpense(e) == SelectSeq(approvals, LAMBDA a : a.expenseId = e)

\* C17: without an active sequence definition, a completed build leaves for
\* the expense exactly one step (approver the submitter's manager, label
\* MANAGER, order 0, PENDING) when the submitter has a manager, and no step
\* when the submitter has none.
C17_FallbackManagerStep ==
    ~sequence.exists =>
        \A e \in DOMAIN builds :
            builds[e].pc = "done" =>
                LET manager == users[expenses[e].userId].reportsTo
                IN  StepsOfExpense(e) =
                        IF manager # 0
                        THEN <<[expenseId |-> e, approverId |-> manager,
                                approverRole |-> "MANAGER", order |-> 0,
                                status |-> "PENDING", comment |-> NULL]>>
                        ELSE <<>>

\* C17 witness: without a sequence definition, one expense was submitted by
\* a user with a manager and one by a user without, and both builds completed.
C17_Witness ==
    /\ ~sequence.exists
    /\ Len(builds) = 2
    /\ \A e \in DOMAIN builds : builds[e].pc = "done"
    /\ \E e \in DOMAIN expenses : users[expenses[e].userId].reportsTo # 0
    /\ \E e \in DOMAIN expenses : users[expenses[e].userId].reportsTo = 0
    /\ Len(approvals) = 1

\* expense e has no approval row
ZeroSteps(e) == \A a \in DOMAIN approvals : approvals[a].expenseId # e

\* C18: an expense without approval steps is never APPROVED or REJECTED and
\* no approve / reject request gets past its lookup for it; it is PENDING
\* unless its submitter cancelled it.
C18_ZeroStepExpenseStaysPending ==
    \A e \in DOMAIN expenses :
        ZeroSteps(e) =>
            /\ expenses[e].status \in {"PENDING", "CANCELLED"}
            /\ expenses[e].status = "CANCELLED"
                   => \E r \in ReqIds : /\ reqs[r].kind = "cancel"
                                        /\ reqs[r].expenseId = e
                                        /\ reqs[r].response = 200
            /\ \A r \in ReqIds :
                   reqs[r].kind \in DecisionKinds => reqs[r].expenseId # e

\* C18 witness: an expense without steps is PENDING while another expense
\* has been approved by its approver, every handler having answered.
C18_Witness ==
    /\ \E e \in DOMAIN expenses : ZeroSteps(e) /\ expenses[e].status = "PENDING"
    /\ \E e \in DOMAIN expenses : expenses[e].status = "APPROVED"
    /\ \A r \in ReqIds : reqs[r].pc \in {"idle", "done"}

\* the company has no active sequence definition and no rule
NoSequenceNoRules == ~sequence.exists /\ rules = <<>>

\* handler r is the approve request of the manager for the step of expense e
ManagerApproves(r, e) ==
    /\ reqs[r].kind = "approve"
    /\ reqs[r].expenseId = e
    /\ reqs[r].approverId = users[expenses[e].userId].reportsTo

\* C19: with no sequence definition and no rule, a completed submission by a
\* user whose manager is M leaves exactly one step (order 0, approver M,
\* label MANAGER); M's approve request that recorded its decision gets the
\* verdict APPROVED by the default path ("All approvals completed") and its
\* write sets the expense status to APPROVED.
C19_ManagerApprovalEndToEnd ==
    [][NoSequenceNoRules =>
          \A e \in DOMAIN expenses' :
              (builds'[e].pc = "done" /\ users[expenses'[e].userId].reportsTo # 0)
                  => /\ Len(SelectSeq(approvals', LAMBDA a : a.expenseId = e)) = 1
                     /\ \E a \in DOMAIN approvals' :
                            /\ approvals'[a].expenseId = e
                            /\ approvals'[a].order = 0
                            /\ approvals'[a].approverId
                                   = users[expenses'[e].userId].reportsTo
                            /\ approvals'[a].approverRole = "MANAGER"
                     /\ \A r \in ReqIds :
                            (e \in DOMAIN expenses /\ ManagerApproves(r, e)) =>
                                /\ reqs[r].pc = "evaluate" /\ reqs'[r].pc # "evaluate"
                                       => /\ reqs'[r].pc = "expenseUpdate"
                                          /\ reqs'[r].finalDecision = "APPROVED"
                                          /\ evaluateApprovalRules(approvals, rules, e).reason
                                                 = "All approvals completed"
                                /\ WritesExpense(r)
                                       => expenses'[e].status = "APPROVED"]_vars

\* C19 witness: no sequence definition, no rule; user 3 submitted, the one
\* step belongs to the manager, user 2, whose approve request answered 200,
\* and the expense is APPROVED.
C19_Witness ==
    /\ NoSequenceNoRules
    /\ Len(expenses) = 1
    /\ expenses[1] = [userId |-> 3, status |-> "APPROVED"]
    /\ Len(approvals) = 1
    /\ approvals[1].approverId = 2
    /\ approvals[1].status = "APPROVED"
    /\ \E r \in ReqIds : /\ ManagerApproves(r, 1)
                         /\ Succeeded(r)
                         /\ reqs[r].finalDecision = "APPROVED"
    /\ \A r \in ReqIds : reqs[r].kind \in {"none", "approve"}

\* C20: under every interleaving of cancel requests with approve / reject
\* requests, an expense that is APPROVED or REJECTED never becomes CANCELLED.
C20_DecidedExpenseNotCancelled ==
    [][\A e \in DOMAIN expenses :
          expenses[e].status \in {"APPROVED", "REJECTED"}
              => expenses'[e].status # "CANCELLED"]_vars

C22_StepsFixedAndOwned ==
    [][/\ \A a \in DOMAIN approvals :
              /\ a \in DOMAIN approvals'
              /\ approvals'[a].expenseId = approvals[a].expenseId
              /\ approvals'[a].approverId = approvals[a].approverId
              /\ approvals'[a].approverRole = approvals[a].approverRole
              /\ approvals'[a].order = approvals[a].order
              /\ approvals'[a] # approvals[a]
                     => \E r \in ReqIds :
                            /\ UpdatesSteps(r)
                            /\ reqs[r].approverId = approvals[a].approverId
                            /\ reqs[r].expenseId = approvals[a].expenseId
       /\ \A a \in DOMAIN approvals' \ DOMAIN approvals :
              approvals'[a].expenseId \notin DOMAIN expenses]_vars

\* C22 witness: an expense has steps of two approvers; one approver has
\* decided, the other's step is still PENDING with its comment empty.
C22_Witness ==
    \E a, b \in DOMAIN approvals :
        /\ approvals[a].expenseId = approvals[b].expenseId
        /\ approvals[a].approverId # approvals[b].approverId
        /\ approvals[a].status # "PENDING"
        /\ approvals[a].comment # NULL
        /\ approvals[b].status = "PENDING"
        /\ approvals[b].comment = NULL
        /\ \A r \in ReqIds : reqs[r].pc \in {"idle", "done"}

\* C23: the writes of an approve / reject request on expense E (its
\* updateMany and its expense.update) leave the steps and the status of
\* every other expense as they were.
C23_OtherExpensesUntouched ==
    [][\A r \in ReqIds :
          (UpdatesSteps(r) \/ WritesExpense(r)) =>
              /\ \A a \in DOMAIN approvals :
                     approvals[a].expenseId # reqs[r].expenseId
                         => approvals'[a] = approvals[a]
              /\ \A e \in DOMAIN expenses :
                     e # reqs[r].expenseId => expenses'[e] = expenses[e]]_vars

\* C23 witness: one approver holds a step on each of two expenses; the
\* request on one expense has completed and approved it, the step and the
\* status of the other expense are still PENDING.
C23_Witness ==
    \E a, b \in DOMAIN approvals :
        /\ approvals[a].expenseId # approvals[b].expenseId
        /\ approvals[a].approverId = approvals[b].approverId
        /\ approvals[a].status = "APPROVED"
        /\ expenses[approvals[a].expenseId].status = "APPROVED"
        /\ approvals[b].status = "PENDING"
        /\ expenses[approvals[b].expenseId].status = "PENDING"
        /\ \E r \in ReqIds : Succeeded(r) /\ reqs[r].expenseId = approvals[a].expenseId

\* the rows of expense e created for the definition step of index k
RowsOfStep(e, k) ==
    {a \in DOMAIN approvals : /\ approvals[a].expenseId = e
                              /\ approvals[a].order = k - 1}

\* the rows of s are one PENDING row naming approver with that label
OneRowNaming(s, approver, label) ==
    /\ Cardinality(s) = 1
    /\ \A a \in s : /\ approvals[a].approverId = approver
                    /\ approvals[a].approverRole = label
                    /\ approvals[a].status = "PENDING"
                    /\ approvals[a].comment = NULL

\* C24: after a completed build from a sequence definition, every step of
\* the definition has the row of its kind and no other row exists: a user
\* step the fixed user with no label; a role step the first active user
\* holding the role, labelled with the role; a manager step the submitter's
\* manager, labelled MANAGER; no row for a role nobody active holds or for a
\* submitter without manager.
C24_StepsFollowTheirKind ==
    sequence.exists =>
        \A e \in DOMAIN builds :
            builds[e].pc = "done" =>
                /\ \A a \in DOMAIN approvals :
                       approvals[a].expenseId = e
                           => approvals[a].order \in 0 .. (Len(sequence.steps) - 1)
                /\ \A k \in DOMAIN sequence.steps :
                       LET step == sequence.steps[k]
                           role == ToUpperCase(step.role)
                           holders == {u \in UserIds : /\ users[u].isActive
                                                       /\ users[u].role = role}
                           manager == users[expenses[e].userId].reportsTo
                       IN  CASE step.type = "user" ->
                                   OneRowNaming(RowsOfStep(e, k), step.userId, NULL)
                             [] step.type = "role" ->
                                   IF holders = {} THEN RowsOfStep(e, k) = {}
                                   ELSE /\ OneRowNaming(RowsOfStep(e, k),
                                                        Min(holders), role)
                             [] OTHER ->
                                   IF manager = 0 THEN RowsOfStep(e, k) = {}
                                   ELSE OneRowNaming(RowsOfStep(e, k),
                                                     manager, "MANAGER")

\* C24 witness: a definition of a manager step and a role step was built for
\* a submitter with a manager while nobody active holds the role: one row.
C24_Witness ==
    /\ sequence.exists
    /\ Len(sequence.steps) = 2
    /\ sequence.steps[1].type = "manager"
    /\ sequence.steps[2] = RoleStep("ADMIN")
    /\ ~users[1].isActive
    /\ Len(builds) = 1 /\ builds[1].pc = "done"
    /\ expenses[1].userId = 3
    /\ Len(approvals) = 1
    /\ approvals[1].approverId = 2

\* the orderings of the rule list rs
Orderings(rs) ==
    {[k \in DOMAIN rs |-> rs[p[k]]] :
        p \in {q \in [DOMAIN rs -> DOMAIN rs] :
                  \A i, j \in DOMAIN rs : q[i] = q[j] => i = j}}

\* C25: the verdict the evaluator returned is the verdict it returns for
\* every other ordering of the same rules on the same steps.
C25_VerdictIgnoresRuleOrder ==
    evalResult # NoResult =>
        \A rs \in Orderings(rules) :
            evaluateApprovalRules(approvals, rs, 1).finalDecision
                = evalResult.finalDecision

\* C25 witness: two rules of which the first is not satisfied and the
\* second is, no step REJECTED, a step still PENDING; the verdict is APPROVED.
C25_Witness ==
    /\ Len(rules) = 2
    /\ ~RuleSatisfied(rules[1], approvals)
    /\ RuleSatisfied(rules[2], approvals)
    /\ NoRejectedStep
    /\ \E a \in DOMAIN approvals : approvals[a].status = "PENDING"
    /\ evalResult.finalDecision = "APPROVED"

\* C26: the evaluator returns APPROVED only when at least one step of the
\* expense is APPROVED; with no step, or with PENDING steps only, the verdict
\* is null whatever rules are configured.
C26_ApprovedNeedsAnApproval ==
    (evalResult # NoResult /\ evalResult.finalDecision = "APPROVED")
        => \E a \in DOMAIN approvals : approvals[a].status = "APPROVED"

\* C27: when nobody cancels, handlers run to their answer and no PENDING
\* step is left without a decision request of its approver, the expense
\* submitted, if it has at least one step, eventually is APPROVED or
\* REJECTED.
C27_EventuallyDecided ==
    (expenses # <<>> /\ ~ZeroSteps(1))
        ~> (expenses # <<>> /\ expenses[1].status \in {"APPROVED", "REJECTED"})

\* C27 witness: an expense with two steps of two approvers was APPROVED
\* after both approved, no rule being configured.
C27_Witness ==
    /\ rules = <<>>
    /\ \E a, b \in DOMAIN approvals :
           /\ approvals[a].expenseId = approvals[b].expenseId
           /\ approvals[a].approverId # approvals[b].approverId
           /\ approvals[a].status = "APPROVED"
           /\ approvals[b].status = "APPROVED"
           /\ expenses[approvals[a].expenseId].status = "APPROVED"

\* C28: when step actions do not overlap, an evaluation made for an expense
\* with a REJECTED step returns REJECTED, and an expense whose status is
\* REJECTED does not become APPROVED or PENDING.
C28_RejectedIsAbsorbing ==
    [][/\ \A r \in ReqIds :
              (/\ reqs[r].pc = "evaluate"
               /\ reqs'[r].pc # "evaluate"
               /\ \E a \in DOMAIN approvals :
                      /\ approvals[a].expenseId = reqs[r].expenseId
                      /\ approvals[a].status = "REJECTED")
                  => reqs'[r].finalDecision = "REJECTED"
       /\ \A e \in DOMAIN expenses :
              expenses[e].status = "REJECTED"
                  => expenses'[e].status \notin {"APPROVED", "PENDING"}]_vars

\* C28 witness: a percentage rule is configured; one approver rejected, then
\* another approved, and the second request wrote REJECTED again.
C28_Witness ==
    /\ Len(rules) > 0
    /\ rules[1].ruleType = "PERCENTAGE"
    /\ \E r, q \in ReqIds :
           /\ reqs[q].kind = "reject" /\ Succeeded(q)
           /\ reqs[r].kind = "approve" /\ Succeeded(r)
           /\ reqs[r].expenseId = reqs[q].expenseId
           /\ reqs[r].expenseStatus = "REJECTED"
           /\ reqs[r].finalDecision = "REJECTED"
           /\ expenses[reqs[r].expenseId].status = "REJECTED"

\* the step table with the rows of S set to APPROVED
WithApproved(S) ==
    [a \in DOMAIN approvals |->
        IF a \in S THEN [approvals[a] EXCEPT !.status = "APPROVED"]
        ELSE approvals[a]]

\* C29: when the evaluator returned APPROVED for steps none of which is
\* REJECTED, it returns APPROVED as well for the same steps with any of the
\* PENDING ones changed to APPROVED, under the same rules.
C29_MonotoneInApprovals ==
    (/\ evalResult # NoResult
     /\ evalResult.finalDecision = "APPROVED"
     /\ NoRejectedStep)
        => \A S \in SUBSET {a \in DOMAIN approvals :
                               approvals[a].status = "PENDING"} :
               evaluateApprovalRules(WithApproved(S), rules, 1).finalDecision
                   = "APPROVED"

\* C29 witness: a rule approved the expense with one step APPROVED and two
\* still PENDING.
C29_Witness ==
    /\ evalResult.finalDecision = "APPROVED"
    /\ Len(rules) > 0
    /\ NoRejectedStep
    /\ CountStatus(approvals, "APPROVED") = 1
    /\ CountStatus(approvals, "PENDING") = 2

\* C30: no step created for an expense names the submitter of that expense
\* as its approver.
C30_SubmitterNeverApprover ==
    \A a \in DOMAIN approvals :
        approvals[a].approverId # expenses[approvals[a].expenseId].userId

====
